---- MODULE Spec2Model ----
(***************************************************************************)
(* Model of tytalb's validate() (src/__main__.py): the reconciliation of a *)
(* ground-truth annotation set with a set to validate into two confusion   *)
(* matrices (time and count), together with the Segment helpers of         *)
(* src/segment.py it relies on.  Times are integers (TimeUnit is a float   *)
(* subclass; small integers are exact in float64).                         *)
(* Three more functions are modelled, each with variables of its own that  *)
(* the others leave alone: a pair of calls of Segment.overlapping_time,    *)
(* AudioFile.export_all_birdnet (src/audio_file.py) and                    *)
(* TableParser.valid_format (src/generic_parser.py).                       *)
(***************************************************************************)
EXTENDS Integers, Sequences, FiniteSets, TLC

(* ------------------------------ bounds -------------------------------- *)
\* Times of the inputs range over 0..MaxTime (0..LongTime in SpecLong).
MaxTime == 2
LongTime == 3
\* Total number of segments in the two annotation sets together.
MaxSegs == 3

(* ----------------------------- constants ------------------------------ *)
NOISE_LABEL == "Noise"
POSITIVE == "Positive"
\* Labels the input tables may carry.
InputLabels == {"A", "B", NOISE_LABEL}

\* Python's str ordering on the labels of the model (ASCII, lexicographic).
LabelRank(l) ==
    CASE l = ""       -> 0
      [] l = "A"      -> 1
      [] l = "B"      -> 2
      [] l = "C"      -> 3
      [] l = "Noise"  -> 4
      [] l = "Positive" -> 5

\* Order of the recording identifiers (only used to enumerate inputs).
RelPathRank(r) == CASE r = "r1" -> 0 [] r = "r2" -> 1

VARIABLES
    ground_truth,       \* ground_truth.audio_files : rel_path -> list of Segment
    to_validate,        \* to_validate.audio_files  : rel_path -> list of Segment
    caller_ground_truth, \* audio_files of the object the caller passed as ground_truth
    caller_to_validate, \* audio_files of the object the caller passed as to_validate
    binary, positive_labels, late_start, early_stop,
    labels,             \* the sorted label list (matrix axes)
    index,              \* label -> row/column
    conf_time_matrix, conf_count_matrix,
    all_rel_paths,      \* union of the recordings of both sides (line 207)
    todo_paths,         \* the recordings the loop of line 264 has still to visit
    rel_path,           \* loop variable of line 264
    min_tstart, max_tend,
    segs_gt, segs_tv,   \* the two interval trees of the current recording
    todo_gt, todo_tv,   \* what the loops of lines 302 and 323 have still to visit
    seg_gt, seg_tv,     \* loop variables of lines 302 and 323 (function locals)
    overlapping,        \* last result of an overlap query
    raised,             \* the exception validate() ended with, or "none"
    warned,             \* warnings.warn was called (line 240)
    returned,           \* what validate() returned (line 377)
    pc

\* A pair of calls of Segment.overlapping_time (src/segment.py).
VARIABLES
    ot_self, ot_other,  \* the two segments
    ot_ab, ot_ba,       \* ot_self.overlapping_time(ot_other) and the converse
    ot_pc

\* AudioFile.export_all_birdnet (src/audio_file.py).
VARIABLES
    ex_duration,        \* self.duration, the length of the audio file
    ex_given,           \* the list the caller passed as segments
    ex_files,           \* the clips base_path holds
    ex_overlap,         \* overlap
    ex_length_threshold, \* length_threshold
    ex_segments,        \* segments: padded, sorted, background removed, not yet popped
    ex_seg,             \* seg, the segment at hand, or None
    ex_rows,            \* the rows of the chunk list ffmpeg wrote (listpath)
    ex_row,             \* number of the row the loop over csv_reader is at
    ex_noise,           \* noise, the flag of the chunk at hand
    ex_requests,        \* what the transcoder has been asked to write so far
    ex_pc

\* TableParser.valid_format (src/generic_parser.py).
VARIABLES
    tp_table,           \* the rows of the table after the header
    tp_i,               \* i of enumerate(csvr): rows read so far
    tp_pulled,          \* segments zip has pulled from the generator so far
    tp_outcome          \* "running", the value returned or the exception raised

call_vars == <<ot_self, ot_other, ot_ab, ot_ba, ot_pc>>
export_vars == <<ex_duration, ex_given, ex_files, ex_overlap, ex_length_threshold, ex_segments, ex_seg,
                 ex_rows, ex_row, ex_noise, ex_requests, ex_pc>>
parser_vars == <<tp_table, tp_i, tp_pulled, tp_outcome>>

vars == <<call_vars, export_vars, parser_vars,
          ground_truth, to_validate, caller_ground_truth, caller_to_validate, binary, positive_labels, late_start, early_stop,
          labels, index, conf_time_matrix, conf_count_matrix, all_rel_paths, todo_paths,
          rel_path, min_tstart, max_tend, segs_gt, segs_tv, todo_gt, todo_tv,
          seg_gt, seg_tv, overlapping, raised, warned, returned, pc>>

(* ------------------------------ Segment ------------------------------- *)
Segment(b, e, l) == [begin |-> b, end |-> e, label |-> l]

\* A local variable no assignment has bound yet.
Unbound == Segment(-1, -1, "<unbound>")

tstart(s) == s.begin
tend(s) == s.end
dur(s) == tend(s) - tstart(s)

Max(a, b) == IF a >= b THEN a ELSE b
Min(a, b) == IF a <= b THEN a ELSE b

\* Mutant of overlapping_time: the overlap ends where self ends.
overlapping_time_to_own_end(self, other) ==
    LET ov_b == Max(tstart(self), tstart(other))
        ov_e == tend(self)
    IN  Max(0, ov_e - ov_b)

overlapping_time(self, other) ==
    LET ov_b == Max(tstart(self), tstart(other))
        ov_e == Min(tend(self), tend(other))
    IN  Max(0, ov_e - ov_b)

\* Interval.is_null(): what IntervalTree refuses to store.
is_null(s) == s.begin >= s.end

(* ---------------------------- IntervalTree ---------------------------- *)
\* Interval.__cmp__: by begin, then end, then data.
IntervalLess(a, b) ==
    \/ a.begin < b.begin
    \/ a.begin = b.begin /\ a.end < b.end
    \/ a.begin = b.begin /\ a.end = b.end /\ LabelRank(a.label) < LabelRank(b.label)

RECURSIVE SortedIntervals(_)
SortedIntervals(S) ==
    IF S = {} THEN <<>>
    ELSE LET m == CHOOSE x \in S : \A y \in S \ {x} : IntervalLess(x, y)
         IN  <<m>> \o SortedIntervals(S \ {m})

\* Elements of a list as a set: IntervalTree(intervals) starts with set(intervals).
Range(seq) == {seq[i] : i \in 1..Len(seq)}

\* Segment.get_intervaltree: the tree is the set of the (distinct) intervals.
get_intervaltree(segments) == segments

\* Mutant of Overlap: closed intervals, so that touching intervals overlap.
Overlap_closed(tree, b, e) ==
    IF b >= e THEN {} ELSE {iv \in tree : iv.begin <= e /\ iv.end >= b}

\* IntervalTree.boundary_table: the begins and ends of the stored intervals.
boundary_table(tree) == {iv.begin : iv \in tree} \cup {iv.end : iv \in tree}

\* Node.search_point(point): the stored intervals that contain the point.
search_point(tree, point) == {iv \in tree : iv.begin <= point /\ point < iv.end}

\* Node.search_overlap(point_list).
search_overlap(tree, point_list) == UNION {search_point(tree, p) : p \in point_list}

\* Mutant of Overlap: the search at the point begin is left out.
Overlap_boundaries_only(tree, b, e) ==
    IF b >= e THEN {}
    ELSE search_overlap(tree, {p \in boundary_table(tree) : b <= p /\ p < e})

\* tree[begin:end], IntervalTree.overlap(begin, end): the intervals that contain
\* begin, and those that contain a boundary from bisect_left(begin) up to, and
\* not including, bisect_left(end).
Overlap(tree, b, e) ==
    IF b >= e THEN {}
    ELSE search_point(tree, b)
            \cup search_overlap(tree, {p \in boundary_table(tree) : b <= p /\ p < e})

\* IntervalTree.merge_overlaps() (strict=True, no data_reducer): the sorted
\* intervals are folded left to right, the merged interval loses its data.
RECURSIVE MergeFold(_, _)
MergeFold(sorted, merged) ==
    IF sorted = <<>> THEN merged
    ELSE LET higher == Head(sorted)
             n == Len(merged)
         IN  IF n > 0 /\ higher.begin < merged[n].end
             THEN MergeFold(Tail(sorted),
                            [merged EXCEPT ![n] =
                                Segment(merged[n].begin,
                                        Max(merged[n].end, higher.end), "")])
             ELSE MergeFold(Tail(sorted), Append(merged, higher))

\* Mutant of merge_overlaps: nothing is merged.
merge_overlaps_none(tree) == tree

merge_overlaps(tree) == Range(MergeFold(SortedIntervals(tree), <<>>))

(* ------------------------- confusion matrices ------------------------- *)
Zeros(n) == [c \in (0..n-1) \X (0..n-1) |-> 0]

\* M is the pair of matrices the two closures of lines 255-261 write to.
set_conf_time(M, label_truth, label_prediction, duration) ==
    [M EXCEPT !.time[<<index[label_truth], index[label_prediction]>>] = @ + duration]

set_both(M, label_truth, label_prediction, duration) ==
    LET T == set_conf_time(M, label_truth, label_prediction, duration)
    IN  [T EXCEPT !.count[<<index[label_truth], index[label_prediction]>>] = @ + 1]

Matrices == [time |-> conf_time_matrix, count |-> conf_count_matrix]

(* ------------------------------- inputs ------------------------------- *)
\* The segments a table may hold: end > start, as the parsers produce them.
WellFormedSegments(T) ==
    {Segment(b, e, l) : <<b, e, l>> \in
        {x \in (0..T) \X (0..T) \X InputLabels : x[1] < x[2]}}

\* Segment.__new__ checks nothing: tables may also hold rows with end <= start.
AnySegments(T) ==
    {Segment(b, e, l) : <<b, e, l>> \in (0..T) \X (0..T) \X InputLabels}

SideRank(side) == IF side = "gt" THEN 0 ELSE 1

\* One row of a table: the side it belongs to, its recording and its segment.
Rows(recs, segs) == [side : {"gt", "tv"}, rel_path : recs, seg : segs]

\* Rows are enumerated in the order (side, recording, begin, end, label), so that
\* the list of one recording comes out sorted by tstart (line 108).
RowKey(row) ==
    LET w == LongTime + 2
    IN  ((((SideRank(row.side) * 2 + RelPathRank(row.rel_path)) * w
            + (row.seg.begin + 1)) * w + (row.seg.end + 1)) * 6
            + LabelRank(row.seg.label))

\* A key larger than every row's: an unused row of a table.
NoRow == 4 * (LongTime + 2) * (LongTime + 2) * 6

\* The tables of at most k rows over the given recordings and segments: the
\* non-decreasing lists of k keys, unused rows last.
Tables(recs, segs, k) ==
    LET rows == Rows(recs, segs)
        byKey == [key \in {RowKey(row) : row \in rows} |->
                     CHOOSE row \in rows : RowKey(row) = key]
        keyLists == {kl \in [1..k -> DOMAIN byKey \cup {NoRow}] :
                        \A i \in 1..(k - 1) : kl[i] <= kl[i + 1]}
    IN  {[i \in {j \in 1..k : kl[j] # NoRow} |-> byKey[kl[i]]] : kl \in keyLists}

\* Annotations.audio_files of one side: a recording is a key only if a row names it.
AudioFiles(rowlist, side) ==
    LET mine == SelectSeq(rowlist, LAMBDA row : row.side = side)
        recs == {mine[i].rel_path : i \in 1..Len(mine)}
    IN  [r \in recs |->
            LET own == SelectSeq(mine, LAMBDA row : row.rel_path = r)
            IN  [i \in 1..Len(own) |-> own[i].seg]]

\* positive_labels: None, or a collection of labels.
NoPositive == [is_none |-> TRUE, items |-> {}]
Positive(S) == [is_none |-> FALSE, items |-> S]

\* A configuration: the keyword arguments of validate().
Config(bin, pos, ls, es) ==
    [binary |-> bin, positive_labels |-> pos, late_start |-> ls, early_stop |-> es]

\* The state at a call of validate().
InitValidate(tables, configs) ==
    /\ \E rowlist \in tables :
          /\ ground_truth = AudioFiles(rowlist, "gt")
          /\ to_validate = AudioFiles(rowlist, "tv")
    /\ caller_ground_truth = ground_truth
    /\ caller_to_validate = to_validate
    /\ \E cfg \in configs :
          /\ binary = cfg.binary
          /\ positive_labels = cfg.positive_labels
          /\ late_start = cfg.late_start
          /\ early_stop = cfg.early_stop
    /\ labels = <<>>
    /\ index = <<>>
    /\ conf_time_matrix = <<>>
    /\ conf_count_matrix = <<>>
    /\ all_rel_paths = {}
    /\ todo_paths = {}
    /\ rel_path = ""
    /\ min_tstart = 0
    /\ max_tend = 0
    /\ segs_gt = {}
    /\ segs_tv = {}
    /\ todo_gt = {}
    /\ todo_tv = {}
    /\ seg_gt = Unbound
    /\ seg_tv = Unbound
    /\ overlapping = {}
    /\ raised = "none"
    /\ warned = FALSE
    /\ returned = <<>>
    /\ pc = "start"

\* Nothing but validate() is under way.
NoCall ==
    /\ ot_self = Unbound /\ ot_other = Unbound
    /\ ot_ab = 0 /\ ot_ba = 0
    /\ ot_pc = "idle"

NoExport ==
    /\ ex_duration = 0 /\ ex_overlap = 0 /\ ex_length_threshold = 0
    /\ ex_given = <<>> /\ ex_files = {}
    /\ ex_segments = <<>> /\ ex_seg = Unbound
    /\ ex_rows = <<>> /\ ex_row = 0
    /\ ex_noise = FALSE
    /\ ex_requests = <<>>
    /\ ex_pc = "idle"

NoTable ==
    /\ tp_table = <<>> /\ tp_i = 0 /\ tp_pulled = <<>>
    /\ tp_outcome = "idle"

others == <<call_vars, export_vars, parser_vars>>

InitWith(tables, configs) ==
    /\ NoCall /\ NoExport /\ NoTable
    /\ InitValidate(tables, configs)

\* The defaults of validate(): binary, late_start and early_stop all False.
Defaults == {Config(FALSE, NoPositive, FALSE, FALSE)}

\* One recording, which either side may miss, under the defaults.
Init == InitWith(Tables({"r1"}, WellFormedSegments(MaxTime), MaxSegs), Defaults)

\* The same with longer segments.
InitLong == InitWith(Tables({"r1"}, WellFormedSegments(LongTime), MaxSegs), Defaults)

\* Two recordings under the defaults, with room for both to be on both sides.
InitTwo == InitWith(Tables({"r1", "r2"}, WellFormedSegments(MaxTime), MaxSegs + 1),
                    Defaults)

\* One recording, binary mode asked for or not, with and without positive labels.
BinaryConfigs ==
    {Config(FALSE, NoPositive, FALSE, FALSE), Config(TRUE, NoPositive, FALSE, FALSE),
     Config(TRUE, Positive({"A"}), FALSE, FALSE),
     Config(TRUE, Positive({"C"}), FALSE, FALSE)}

InitBinary ==
    InitWith(Tables({"r1"}, WellFormedSegments(MaxTime), MaxSegs), BinaryConfigs)

\* One recording, every combination of late_start and early_stop.
TrimConfigs == {Config(FALSE, NoPositive, ls, es) : ls \in BOOLEAN, es \in BOOLEAN}

InitTrim == InitWith(Tables({"r1"}, WellFormedSegments(LongTime), MaxSegs), TrimConfigs)

\* One recording under the defaults, rows with end <= start among the others.
InitMalformed == InitWith(Tables({"r1"}, AnySegments(MaxTime), MaxSegs), Defaults)

(* ------------------------- label vocabulary --------------------------- *)
\* Mutant of SortedLabels: descending order.
RECURSIVE SortedLabels_descending(_)
SortedLabels_descending(S) ==
    IF S = {} THEN <<>>
    ELSE LET m == CHOOSE x \in S : \A y \in S : LabelRank(x) >= LabelRank(y)
         IN  <<m>> \o SortedLabels_descending(S \ {m})

RECURSIVE SortedLabels(_)
SortedLabels(S) ==
    IF S = {} THEN <<>>
    ELSE LET m == CHOOSE x \in S : \A y \in S : LabelRank(x) <= LabelRank(y)
         IN  <<m>> \o SortedLabels(S \ {m})

\* Lines 208-214: the labels of every segment of one annotation set.
LabelsOf(audio_files) ==
    UNION {{audio_files[r][i].label : i \in 1..Len(audio_files[r])} :
                r \in DOMAIN audio_files}

\* Lines 230-238: the relabelling of one annotation set.
Collapse(audio_files, positive) ==
    [r \in DOMAIN audio_files |->
        [i \in 1..Len(audio_files[r]) |->
            [audio_files[r][i] EXCEPT !.label =
                IF @ \notin positive THEN NOISE_LABEL ELSE POSITIVE]]]

\* Segment.__deepcopy__: a new Segment built from the fields of the old one, with
\* a bytearray of its own for the label.
Segment__deepcopy__(s) == Segment(s.begin, s.end, s.label)

\* Mutant of deepcopy: the copy is shallow, its segments are the caller's.
deepcopy_shallow(audio_files) == [shared |-> TRUE, audio_files |-> audio_files]

\* Lines 223-224: deepcopy(annotations). shared tells whether a write to a segment
\* of the copy is a write to the caller's segment.
deepcopy(audio_files) ==
    [shared |-> FALSE,
     audio_files |-> [r \in DOMAIN audio_files |->
                        [i \in 1..Len(audio_files[r]) |->
                            Segment__deepcopy__(audio_files[r][i])]]]

\* Lines 244-248: enumerate(labels), rows and columns counted from 0.
IndexOf(lbls) ==
    [l \in Range(lbls) |-> (CHOOSE i \in 1..Len(lbls) : lbls[i] = l) - 1]

\* Lines 207-219: the sorted union of the labels of both sides and NOISE_LABEL.
Vocabulary(gt, tv) == SortedLabels(LabelsOf(gt) \cup LabelsOf(tv) \cup {NOISE_LABEL})

\* Line 222: the guard of the binary collapse.
NeedsCollapse(bin, n_labels) == bin /\ n_labels > 2

\* Line 241: the axes after the collapse.
BinaryLabels == <<POSITIVE, NOISE_LABEL>>

\* Lines 229-238: found, whether some segment carries a positive label.
Found(gt, tv, positive) == (LabelsOf(gt) \cup LabelsOf(tv)) \cap positive # {}

(* ------------------------ one recording, one side --------------------- *)
\* Mutant of OnlyToValidate: background segments are not skipped.
RECURSIVE OnlyToValidate_unfiltered(_, _)
OnlyToValidate_unfiltered(M, segments) ==
    IF segments = <<>> THEN M
    ELSE LET seg == Head(segments)
         IN  OnlyToValidate_unfiltered(set_both(M, NOISE_LABEL, seg.label, dur(seg)),
                                       Tail(segments))

\* Lines 276-278: every segment of a recording the ground truth does not know.
RECURSIVE OnlyToValidate(_, _)
OnlyToValidate(M, segments) ==
    IF segments = <<>> THEN M
    ELSE LET seg == Head(segments)
         IN  OnlyToValidate(IF seg.label # NOISE_LABEL
                              THEN set_both(M, NOISE_LABEL, seg.label, dur(seg))
                              ELSE M,
                            Tail(segments))

\* Lines 283-285: every segment of a recording the set to validate does not know.
RECURSIVE OnlyGroundTruth(_, _)
OnlyGroundTruth(M, segments) ==
    IF segments = <<>> THEN M
    ELSE LET seg == Head(segments)
         IN  OnlyGroundTruth(IF seg.label # NOISE_LABEL
                               THEN set_both(M, seg.label, NOISE_LABEL, dur(seg))
                               ELSE M,
                             Tail(segments))

(* ------------------------ one recording, both sides ------------------- *)
\* Lines 288-289.
MinTstart(segments) ==
    CHOOSE t \in {tstart(segments[i]) : i \in 1..Len(segments)} :
        \A j \in 1..Len(segments) : t <= tstart(segments[j])

MaxTend(segments) ==
    CHOOSE t \in {tend(segments[i]) : i \in 1..Len(segments)} :
        \A j \in 1..Len(segments) : t >= tend(segments[j])

\* Mutant of Kept: background segments enter the trees.
Kept_any(s, ls, es, mn, mx) ==
    /\ (~ls \/ tend(s) >= mn)
    /\ (~es \/ tstart(s) <= mx)

\* Lines 293-295: the segments interval_tree(af) hands to the tree.
Kept(s, ls, es, mn, mx) ==
    /\ s.label # NOISE_LABEL
    /\ (~ls \/ tend(s) >= mn)
    /\ (~es \/ tstart(s) <= mx)

interval_tree(segments, ls, es, mn, mx) ==
    get_intervaltree({s \in Range(segments) : Kept(s, ls, es, mn, mx)})

\* IntervalTree.__init__ raises ValueError on a null interval.
TreeRaises(segments, ls, es, mn, mx) ==
    \E s \in Range(segments) : Kept(s, ls, es, mn, mx) /\ is_null(s)

\* Mutant of AddOverlaps: truth and prediction are swapped.
RECURSIVE AddOverlaps_swapped(_, _, _)
AddOverlaps_swapped(M, ov, g) ==
    IF ov = {} THEN M
    ELSE LET v == CHOOSE x \in ov : TRUE
         IN  AddOverlaps_swapped(set_both(M, v.label, g.label, overlapping_time(v, g)),
                                 ov \ {v}, g)

\* Lines 312-315: one contribution for every overlapping segment.
RECURSIVE AddOverlaps(_, _, _)
AddOverlaps(M, ov, g) ==
    IF ov = {} THEN M
    ELSE LET v == CHOOSE x \in ov : TRUE
         IN  AddOverlaps(set_both(M, g.label, v.label, overlapping_time(v, g)),
                         ov \ {v}, g)

\* Lines 320 and 334: sum([Segment.from_interval(s).overlapping_time(seg) for s in t]).
RECURSIVE TotOverlapping(_, _)
TotOverlapping(t, seg) ==
    IF t = {} THEN 0
    ELSE LET s == CHOOSE x \in t : TRUE
         IN  overlapping_time(s, seg) + TotOverlapping(t \ {s}, seg)

\* Lines 303-321: the body of the loop over the ground truth.
GtIteration(M, g, tree_tv) ==
    LET ov == Overlap(tree_tv, g.begin, g.end)
    IN  IF ov = {}
        THEN set_both(M, g.label, NOISE_LABEL, dur(g))
        ELSE LET t == merge_overlaps(get_intervaltree(ov))
                 tot_overlapping == TotOverlapping(t, g)
             IN  set_conf_time(AddOverlaps(M, ov, g),
                               g.label, NOISE_LABEL, dur(g) - tot_overlapping)

\* Lines 324-335: the body of the loop over the segments to validate. cur_gt is
\* what the name seg_gt is bound to when the body runs.
TvIteration(M, v, tree_gt, cur_gt) ==
    LET ov == Overlap(tree_gt, v.begin, v.end)
    IN  IF ov = {}
        THEN set_both(M, NOISE_LABEL, v.label, dur(cur_gt))
        ELSE LET t == merge_overlaps(get_intervaltree(ov))
                 tot_overlapping == TotOverlapping(t, cur_gt)
             IN  set_conf_time(M, NOISE_LABEL, v.label, dur(v) - tot_overlapping)

\* Line 328 reads seg_gt: an UnboundLocalError if no loop has bound it yet.
TvRaises(v, tree_gt, cur_gt) ==
    Overlap(tree_gt, v.begin, v.end) = {} /\ cur_gt = Unbound

\* Where the loops of one recording go on.
AfterGt(left_gt, left_tv) ==
    IF left_gt # {} THEN "gt_pass" ELSE IF left_tv # {} THEN "tv_pass" ELSE "loop"

AfterTv(left_tv) == IF left_tv # {} THEN "tv_pass" ELSE "loop"

(* ------------------------------ metrics ------------------------------- *)
Sign(n) == IF n > 0 THEN 1 ELSE IF n < 0 THEN -1 ELSE 0
Abs(n) == IF n < 0 THEN -n ELSE n

RECURSIVE Gcd(_, _)
Gcd(a, b) == IF b = 0 THEN a ELSE Gcd(b, a % b)

\* A float64 value of the metrics: the fraction num/den in lowest terms with
\* den > 0; 1/0, -1/0 and 0/0 stand for inf, -inf and nan (numpy divides by zero
\* with a warning, not an exception). Rounding is left out.
Float(n, d) ==
    IF d = 0 THEN [num |-> Sign(n), den |-> 0]
    ELSE LET g == Gcd(Abs(n), Abs(d))
         IN  [num |-> Sign(d) * (n \div g), den |-> Abs(d) \div g]

FloatMul(x, y) == Float(x.num * y.num, x.den * y.den)

FloatAdd(x, y) ==
    IF x.den = 0 /\ y.den = 0
    THEN (IF x.num = y.num THEN x ELSE Float(0, 0))
    ELSE Float(x.num * y.den + y.num * x.den, x.den * y.den)

FloatDiv(x, y) ==
    IF x.den = 0 /\ y.num < 0
    THEN Float(-(x.num * y.den), 0)
    ELSE Float(x.num * y.den, x.den * y.num)

\* Lines 348-351: np.dot(values, mask), the mask leaving out position i.
RECURSIVE MaskedDot(_, _, _)
MaskedDot(values, i, k) ==
    IF k < 0 THEN 0
    ELSE (IF k = i THEN 0 ELSE values[k]) + MaskedDot(values, i, k - 1)

\* Lines 346-358: the metrics of the label at row and column i.
MetricsAt(matrix, n, i) ==
    LET tp == matrix[<<i, i>>]
        fp == MaskedDot([k \in 0..(n - 1) |-> matrix[<<k, i>>]], i, n - 1)
        fn == MaskedDot([k \in 0..(n - 1) |-> matrix[<<i, k>>]], i, n - 1)
        p == IF tp = 0 THEN Float(0, 1) ELSE FloatDiv(Float(tp, 1), Float(tp + fp, 1))
        r == IF tp = 0 THEN Float(0, 1) ELSE FloatDiv(Float(tp, 1), Float(tp + fn, 1))
    IN  [precision |-> p,
         recall |-> r,
         f1score |-> IF p = Float(0, 1) /\ r = Float(0, 1) THEN Float(0, 1)
                     ELSE FloatDiv(FloatMul(Float(2, 1), FloatMul(p, r)), FloatAdd(p, r)),
         false_positive |-> fp,
         false_negative |-> fn]

\* Lines 340-375: stats(matrix), the matrix and the metrics as labelled tables.
stats(matrix, lbls) ==
    [df_matrix |-> [data |-> matrix, index |-> lbls, columns |-> lbls],
     df_metrics |-> [index |-> lbls,
                     data |-> [i \in 0..(Len(lbls) - 1) |->
                                  MetricsAt(matrix, Len(lbls), i)]]]

(* ------------------------------ actions ------------------------------- *)
inputs == <<ground_truth, to_validate, caller_ground_truth, caller_to_validate,
            binary, positive_labels, late_start, early_stop>>
axes == <<labels, index, all_rel_paths>>
trees == <<min_tstart, max_tend, segs_gt, segs_tv>>

\* Lines 207-252: vocabulary, binary collapse, index and the two zero matrices.
Prepare ==
    /\ UNCHANGED others
    /\ pc = "start"
    /\ LET sorted == Vocabulary(ground_truth, to_validate)
           collapse == NeedsCollapse(binary, Len(sorted))
           fails == collapse /\ positive_labels.is_none
           lbls == IF collapse THEN BinaryLabels ELSE sorted
           copy_gt == deepcopy(ground_truth)
           copy_tv == deepcopy(to_validate)
           relabelled_gt == Collapse(copy_gt.audio_files, positive_labels.items)
           relabelled_tv == Collapse(copy_tv.audio_files, positive_labels.items)
       IN  /\ all_rel_paths' = DOMAIN ground_truth \cup DOMAIN to_validate
           /\ IF fails
              THEN /\ pc' = "raised"
                   /\ raised' = "AttributeError"
                   /\ ground_truth' = copy_gt.audio_files
                   /\ to_validate' = copy_tv.audio_files
                   /\ UNCHANGED <<caller_ground_truth, caller_to_validate, labels,
                                  index, conf_time_matrix, conf_count_matrix,
                                  todo_paths, warned>>
              ELSE /\ pc' = "loop"
                   /\ raised' = raised
                   /\ ground_truth' = IF collapse THEN relabelled_gt ELSE ground_truth
                   /\ to_validate' = IF collapse THEN relabelled_tv ELSE to_validate
                   /\ caller_ground_truth' = IF collapse /\ copy_gt.shared
                                               THEN relabelled_gt
                                               ELSE caller_ground_truth
                   /\ caller_to_validate' = IF collapse /\ copy_tv.shared
                                              THEN relabelled_tv
                                              ELSE caller_to_validate
                   /\ warned' = (collapse /\ ~Found(ground_truth, to_validate,
                                                    positive_labels.items))
                   /\ labels' = lbls
                   /\ index' = IndexOf(lbls)
                   /\ conf_time_matrix' = Zeros(Len(lbls))
                   /\ conf_count_matrix' = Zeros(Len(lbls))
                   /\ todo_paths' = all_rel_paths'
    /\ UNCHANGED <<binary, positive_labels, late_start, early_stop, rel_path, trees,
                   todo_gt, todo_tv, seg_gt, seg_tv, overlapping, returned>>

\* Lines 275-279: a recording only the set to validate knows.
MissingGroundTruth ==
    /\ UNCHANGED others
    /\ pc = "loop"
    /\ \E r \in todo_paths :
          /\ r \notin DOMAIN ground_truth
          /\ LET M == OnlyToValidate(Matrices, to_validate[r])
             IN  /\ conf_time_matrix' = M.time
                 /\ conf_count_matrix' = M.count
          /\ rel_path' = r
          /\ todo_paths' = todo_paths \ {r}
    /\ UNCHANGED <<inputs, axes, trees, todo_gt, todo_tv, seg_gt, seg_tv, overlapping,
                   raised, warned, returned, pc>>

\* Lines 282-286: a recording only the ground truth knows.
MissingToValidate ==
    /\ UNCHANGED others
    /\ pc = "loop"
    /\ \E r \in todo_paths :
          /\ r \in DOMAIN ground_truth
          /\ r \notin DOMAIN to_validate
          /\ LET M == OnlyGroundTruth(Matrices, ground_truth[r])
             IN  /\ conf_time_matrix' = M.time
                 /\ conf_count_matrix' = M.count
          /\ rel_path' = r
          /\ todo_paths' = todo_paths \ {r}
    /\ UNCHANGED <<inputs, axes, trees, todo_gt, todo_tv, seg_gt, seg_tv, overlapping,
                   raised, warned, returned, pc>>

\* Lines 288-298: the window and the two interval trees of a recording of both sides.
BuildTrees ==
    /\ UNCHANGED others
    /\ pc = "loop"
    /\ \E r \in todo_paths :
          /\ r \in DOMAIN ground_truth
          /\ r \in DOMAIN to_validate
          /\ rel_path' = r
          /\ todo_paths' = todo_paths \ {r}
          /\ LET mn == MinTstart(ground_truth[r])
                 mx == MaxTend(ground_truth[r])
                 gt == interval_tree(ground_truth[r], late_start, early_stop, mn, mx)
                 tv == interval_tree(to_validate[r], late_start, early_stop, mn, mx)
             IN  /\ min_tstart' = mn
                 /\ max_tend' = mx
                 /\ IF TreeRaises(ground_truth[r], late_start, early_stop, mn, mx)
                    THEN /\ pc' = "raised"
                         /\ raised' = "ValueError"
                         /\ UNCHANGED <<segs_gt, segs_tv, todo_gt, todo_tv>>
                    ELSE IF TreeRaises(to_validate[r], late_start, early_stop, mn, mx)
                    THEN /\ pc' = "raised"
                         /\ raised' = "ValueError"
                         /\ segs_gt' = gt
                         /\ UNCHANGED <<segs_tv, todo_gt, todo_tv>>
                    ELSE /\ segs_gt' = gt
                         /\ segs_tv' = tv
                         /\ todo_gt' = gt
                         /\ todo_tv' = tv
                         /\ pc' = AfterGt(gt, tv)
                         /\ raised' = raised
    /\ UNCHANGED <<inputs, axes, conf_time_matrix, conf_count_matrix, seg_gt, seg_tv,
                   overlapping, warned, returned>>

\* Lines 302-321: one iteration of the loop over the ground-truth tree. A tree
\* iterates over a set, so the order of the iterations is not fixed.
GtStep ==
    /\ UNCHANGED others
    /\ pc = "gt_pass"
    /\ \E g \in todo_gt :
          LET ov == Overlap(segs_tv, g.begin, g.end)
              M == GtIteration(Matrices, g, segs_tv)
          IN  /\ seg_gt' = g
              /\ overlapping' = ov
              /\ \E last \in (IF ov = {} THEN {seg_tv} ELSE ov) : seg_tv' = last
              /\ conf_time_matrix' = M.time
              /\ conf_count_matrix' = M.count
              /\ todo_gt' = todo_gt \ {g}
              /\ pc' = AfterGt(todo_gt \ {g}, todo_tv)
    /\ UNCHANGED <<inputs, axes, todo_paths, rel_path, trees, todo_tv, raised, warned,
                   returned>>

\* Lines 323-335: one iteration of the loop over the tree of the set to validate.
TvStep ==
    /\ UNCHANGED others
    /\ pc = "tv_pass"
    /\ \E v \in todo_tv :
          /\ seg_tv' = v
          /\ overlapping' = Overlap(segs_gt, v.begin, v.end)
          /\ todo_tv' = todo_tv \ {v}
          /\ IF TvRaises(v, segs_gt, seg_gt)
             THEN /\ pc' = "raised"
                  /\ raised' = "UnboundLocalError"
                  /\ UNCHANGED <<conf_time_matrix, conf_count_matrix>>
             ELSE LET M == TvIteration(Matrices, v, segs_gt, seg_gt)
                  IN  /\ conf_time_matrix' = M.time
                      /\ conf_count_matrix' = M.count
                      /\ pc' = AfterTv(todo_tv \ {v})
                      /\ raised' = raised
    /\ UNCHANGED <<inputs, axes, todo_paths, rel_path, trees, todo_gt, seg_gt, warned,
                   returned>>

\* Lines 340-377: every recording has been visited, validate() returns.
Return ==
    /\ UNCHANGED others
    /\ pc = "loop"
    /\ todo_paths = {}
    /\ returned' = <<stats(conf_time_matrix, labels), stats(conf_count_matrix, labels)>>
    /\ pc' = "done"
    /\ UNCHANGED <<inputs, axes, conf_time_matrix, conf_count_matrix, todo_paths,
                   rel_path, trees, todo_gt, todo_tv, seg_gt, seg_tv, overlapping,
                   raised, warned>>

Next ==
    \/ Prepare
    \/ MissingGroundTruth
    \/ MissingToValidate
    \/ BuildTrees
    \/ GtStep
    \/ TvStep
    \/ Return

Spec == Init /\ [][Next]_vars
SpecLong == InitLong /\ [][Next]_vars
SpecTwo == InitTwo /\ [][Next]_vars
SpecBinary == InitBinary /\ [][Next]_vars
SpecTrim == InitTrim /\ [][Next]_vars
SpecMalformed == InitMalformed /\ [][Next]_vars

(* ------------------- the functions besides validate ------------------- *)
validate_vars ==
    <<ground_truth, to_validate, caller_ground_truth, caller_to_validate, binary,
      positive_labels, late_start, early_stop, labels, index, conf_time_matrix,
      conf_count_matrix, all_rel_paths, todo_paths, rel_path, min_tstart, max_tend,
      segs_gt, segs_tv, todo_gt, todo_tv, seg_gt, seg_tv, overlapping, raised, warned,
      returned, pc>>

\* validate() is not under way.
NoValidate ==
    /\ ground_truth = <<>> /\ to_validate = <<>>
    /\ caller_ground_truth = <<>> /\ caller_to_validate = <<>>
    /\ binary = FALSE /\ positive_labels = NoPositive
    /\ late_start = FALSE /\ early_stop = FALSE
    /\ labels = <<>> /\ index = <<>>
    /\ conf_time_matrix = <<>> /\ conf_count_matrix = <<>>
    /\ all_rel_paths = {} /\ todo_paths = {} /\ rel_path = ""
    /\ min_tstart = 0 /\ max_tend = 0
    /\ segs_gt = {} /\ segs_tv = {} /\ todo_gt = {} /\ todo_tv = {}
    /\ seg_gt = Unbound /\ seg_tv = Unbound
    /\ overlapping = {}
    /\ raised = "none" /\ warned = FALSE /\ returned = <<>>
    /\ pc = "idle"

(* ---------------------- Segment.overlapping_time ---------------------- *)
\* Two segments a and b, and the calls a.overlapping_time(b), b.overlapping_time(a).
InitCall ==
    /\ NoValidate /\ NoExport /\ NoTable
    /\ ot_self \in WellFormedSegments(LongTime)
    /\ ot_other \in WellFormedSegments(LongTime)
    /\ ot_ab = 0 /\ ot_ba = 0
    /\ ot_pc = "a.b"

CallSelfOther ==
    /\ ot_pc = "a.b"
    /\ ot_ab' = overlapping_time(ot_self, ot_other)
    /\ ot_pc' = "b.a"
    /\ UNCHANGED <<ot_self, ot_other, ot_ba, validate_vars, export_vars, parser_vars>>

CallOtherSelf ==
    /\ ot_pc = "b.a"
    /\ ot_ba' = overlapping_time(ot_other, ot_self)
    /\ ot_pc' = "done"
    /\ UNCHANGED <<ot_self, ot_other, ot_ab, validate_vars, export_vars, parser_vars>>

NextCall == CallSelfOther \/ CallOtherSelf

SpecCall == InitCall /\ [][NextCall]_vars

(* ------------------- AudioFile.export_all_birdnet --------------------- *)
\* Times of the export are counted in ticks of half a second, so that the padding
\* of a segment of whole seconds, (3 - dur)/2 on either side, is exact.
TicksPerSecond == 2
Seconds(n) == n * TicksPerSecond
BIRDNET_AUDIO_DURATION == Seconds(3)

\* Bounds of the export: segments start at a tick of 0..MaxClipStart, last
\* 1..MaxClipDur whole seconds, and the list holds at most MaxClips of them.
MaxClipStart == 4
MaxClipDur == 5
MaxClips == 2

\* int(t.s) and int(ceil(t.s)) of a time of t ticks, in seconds.
Floor_s(t) == t \div TicksPerSecond
Ceil_s(t) == (t + TicksPerSecond - 1) \div TicksPerSecond

\* Python's None, where a variable may hold a segment or None.
None == Segment(-1, -1, "<none>")

centered_pad(self, pad) == Segment(tstart(self) - pad, tend(self) + pad, self.label)

safe_centered_pad(self, pad) ==
    IF tstart(self) - pad < 0
    THEN Segment(0, tend(self) + pad + (pad - tstart(self)), self.label)
    ELSE centered_pad(self, pad)

centered_pad_to(self, duration) ==
    IF dur(self) > duration
    THEN self
    ELSE safe_centered_pad(self, (duration - dur(self)) \div 2)

birdnet_pad(self) == centered_pad_to(self, BIRDNET_AUDIO_DURATION)

\* sorted(..., key=lambda seg: seg.tstart): stable, so ties keep their order.
RECURSIVE SortedByTstart(_)
SortedByTstart(segments) ==
    IF segments = <<>> THEN <<>>
    ELSE LET i == CHOOSE k \in 1..Len(segments) :
                     \A j \in 1..Len(segments) :
                         \/ tstart(segments[k]) < tstart(segments[j])
                         \/ tstart(segments[k]) = tstart(segments[j]) /\ k <= j
             rest == [j \in 1..(Len(segments) - 1) |->
                         IF j < i THEN segments[j] ELSE segments[j + 1]]
         IN  <<segments[i]>> \o SortedByTstart(rest)

\* Lines 252-257: the padded segments in the order of their starts, background
\* segments removed.
Padded(segments) ==
    SelectSeq(SortedByTstart([i \in 1..Len(segments) |-> birdnet_pad(segments[i])]),
              LAMBDA seg : seg.label # NOISE_LABEL)

\* Lines 259-274: is_segment, the mask over the seconds 0..max_tend.
MaskEnd(segments) ==
    LET ends == {Ceil_s(tend(segments[i])) : i \in 1..Len(segments)} \cup {0}
    IN  CHOOSE m \in ends : \A e \in ends : e <= m

is_segment(segments, second) ==
    \E i \in 1..Len(segments) :
        Floor_s(tstart(segments[i])) <= second /\ second < Ceil_s(tend(segments[i]))

\* Lines 275-279: the seconds at which the mask changes, the file counting as
\* background before its first second.
Tstamps(segments) ==
    {t \in 0..MaskEnd(segments) :
        is_segment(segments, t) # (t > 0 /\ is_segment(segments, t - 1))}

\* Lines 293-300, ffmpeg's segment muxer: the file is cut at the timestamps
\* inside it and the list names every chunk with its start and end.  A timestamp
\* of 0 cuts off a chunk of one packet, far shorter than a tick, that line 320
\* skips: it is left out.
RECURSIVE ChunksFrom(_, _, _)
ChunksFrom(from, cuts, duration) ==
    IF cuts = {}
    THEN <<[begin |-> from, end |-> duration]>>
    ELSE LET c == CHOOSE x \in cuts : \A y \in cuts : x <= y
         IN  <<[begin |-> from, end |-> c]>> \o ChunksFrom(c, cuts \ {c}, duration)

Chunks(segments, duration) ==
    ChunksFrom(0, {Seconds(t) : t \in Tstamps(segments)} \cap 1..(duration - 1),
               duration)

\* f"{t:06.0f}" of a time of t ticks: the nearest second, a half going to the even
\* one.
Round_s(t) ==
    LET n == t \div TicksPerSecond
    IN  IF t % TicksPerSecond = 0 \/ n % 2 = 0 THEN n ELSE n + 1

\* AudioFile.segment_path without a date: the label's folder and the rounded times.
segment_path(segment) ==
    <<segment.label, Round_s(tstart(segment)), Round_s(tend(segment))>>

\* What the transcoder is asked for: by export_segment_ffmpeg ("clip", one file
\* from ss to to of the chunk) or by export_segments_ffmpeg ("split" and "noise",
\* the span from ss to to of the chunk cut into files of `times`).
Request(kind, row, seg, ss, to, times) ==
    [kind |-> kind, row |-> row, seg |-> seg, ss |-> ss, to |-> to, times |-> times]

\* Lines 332-345: a segment no longer than BIRDNET_AUDIO_DURATION is one clip.
ExportShort(files, row, tstart_f, seg) ==
    LET ss == tstart(seg) - tstart_f
        to == tend(seg) - tstart_f
        out_path == segment_path(seg)
    IN  [requests |-> IF out_path \in files THEN <<>>
                      ELSE <<Request("clip", row, seg, ss, to, 0)>>,
         files |-> files \cup {out_path}]

\* rename_or_delete_segments (lines 171-217) on the list of a split of `length`
\* ticks: whole pieces are renamed after their place in the chunk; a shorter last
\* piece is deleted and the last BIRDNET_AUDIO_DURATION of the span exported in
\* its place.
rename_or_delete_segments(row, label, length, tstart_f) ==
    LET whole == length \div BIRDNET_AUDIO_DURATION
        piece(i) == Segment(tstart_f + i * BIRDNET_AUDIO_DURATION,
                            tstart_f + (i + 1) * BIRDNET_AUDIO_DURATION, label)
        again == length % BIRDNET_AUDIO_DURATION # 0
                    /\ length - BIRDNET_AUDIO_DURATION > 0
        last == Segment(tstart_f + length - BIRDNET_AUDIO_DURATION, tstart_f + length,
                        label)
    IN  [requests |-> IF again
                      THEN <<Request("clip", row, last,
                                     length - BIRDNET_AUDIO_DURATION, length, 0)>>
                      ELSE <<>>,
         files |-> {segment_path(piece(i)) : i \in 0..(whole - 1)}
                       \cup (IF again THEN {segment_path(last)} ELSE {})]

\* Lines 347-375: a long segment is cut by ffmpeg's segment muxer, without overlap.
ExportSplit(files, row, tstart_f, seg) ==
    LET ss == tstart(seg) - tstart_f
        to == tend(seg) - tstart_f
        renamed == rename_or_delete_segments(row, seg.label, to - ss, tstart_f)
    IN  [requests |-> <<Request("split", row, seg, ss, to, BIRDNET_AUDIO_DURATION)>>
                          \o renamed.requests,
         files |-> files \cup renamed.files]

\* Lines 381-403: the loop over the overlapping clips of a long segment.
RECURSIVE ExportLoop(_, _, _, _, _, _, _, _)
ExportLoop(n, ss, to, files, row, tstart_f, seg, overlap) ==
    IF n = 0
    THEN [requests |-> <<>>, files |-> files]
    ELSE LET beyond == ss + BIRDNET_AUDIO_DURATION > to
             ss_ == IF beyond THEN ss - (ss + BIRDNET_AUDIO_DURATION - to) ELSE ss
             to_ == IF beyond THEN to ELSE ss + BIRDNET_AUDIO_DURATION
             sub_seg == Segment(ss_ + tstart_f, to_ + tstart_f, seg.label)
             out_path == segment_path(sub_seg)
             asked == IF out_path \in files THEN <<>>
                      ELSE <<Request("clip", row, sub_seg, ss_, to, 0)>>
             rest == IF beyond
                     THEN [requests |-> <<>>, files |-> files \cup {out_path}]
                     ELSE ExportLoop(n - 1, to_ - overlap, to, files \cup {out_path},
                                     row, tstart_f, seg, overlap)
         IN  [requests |-> asked \o rest.requests, files |-> rest.files]

\* Lines 378-403.
ExportOverlapping(files, row, tstart_f, seg, overlap) ==
    LET ss == tstart(seg) - tstart_f
        to == tend(seg) - tstart_f
        n_loops == ((to - ss) + BIRDNET_AUDIO_DURATION - 1) \div BIRDNET_AUDIO_DURATION
    IN  ExportLoop(n_loops, ss, to, files, row, tstart_f, seg, overlap)

\* Lines 332-403: the body of the while loop for one segment.
ExportOne(files, row, tstart_f, seg, overlap, length_threshold) ==
    IF dur(seg) <= BIRDNET_AUDIO_DURATION
    THEN ExportShort(files, row, tstart_f, seg)
    ELSE IF dur(seg) > length_threshold \/ overlap = 0
         THEN ExportSplit(files, row, tstart_f, seg)
         ELSE ExportOverlapping(files, row, tstart_f, seg, overlap)

\* Lines 423-462: a chunk without segments is cut into background clips.
ExportNoise(files, row, tstart_f, tend_f) ==
    LET to == (tend_f - tstart_f) - ((tend_f - tstart_f) % BIRDNET_AUDIO_DURATION)
        renamed == rename_or_delete_segments(row, NOISE_LABEL, to, tstart_f)
    IN  [requests |-> <<Request("noise", row, Segment(tstart_f, tend_f, NOISE_LABEL),
                                0, to, BIRDNET_AUDIO_DURATION)>> \o renamed.requests,
         files |-> files \cup renamed.files]

\* The segments a caller may pass: whole seconds long, starting at any tick.
ExportLabels == {"A", NOISE_LABEL}
ExportSegments ==
    {Segment(b, b + Seconds(d), l) :
        <<b, d, l>> \in (0..MaxClipStart) \X (1..MaxClipDur) \X ExportLabels}

\* The file outlasts every padded segment by at least BIRDNET_AUDIO_DURATION.
FileDuration == MaxClipStart + Seconds(MaxClipDur) + BIRDNET_AUDIO_DURATION

\* The state at a call of export_all_birdnet() into an empty base_path, with
\* overlap_s 0 (the default) or 1 and length_threshold_s 4 or 300 (the default).
InitExport ==
    /\ NoValidate /\ NoCall /\ NoTable
    /\ ex_given \in UNION {[1..n -> ExportSegments] : n \in 0..MaxClips}
    /\ ex_duration = Seconds(Ceil_s(FileDuration))
    /\ ex_overlap \in {0, Seconds(1)}
    /\ ex_length_threshold \in {Seconds(4), 100 * BIRDNET_AUDIO_DURATION}
    /\ ex_files = {}
    /\ ex_segments = <<>>
    /\ ex_seg = Unbound
    /\ ex_rows = <<>>
    /\ ex_row = 0
    /\ ex_noise = FALSE
    /\ ex_requests = <<>>
    /\ ex_pc = "start"

export_args == <<ex_duration, ex_given, ex_overlap, ex_length_threshold>>
export_idle == <<validate_vars, call_vars, parser_vars>>

\* Lines 251-306: pad, sort and filter the segments, chunk the file, pop the first
\* segment.
ExportStart ==
    /\ ex_pc = "start"
    /\ LET segments == Padded(ex_given)
       IN  /\ ex_rows' = Chunks(segments, ex_duration)
           /\ ex_seg' = IF segments # <<>> THEN Head(segments) ELSE None
           /\ ex_segments' = IF segments # <<>> THEN Tail(segments) ELSE <<>>
    /\ ex_row' = 1
    /\ ex_pc' = "row"
    /\ UNCHANGED <<export_args, ex_files, ex_noise, ex_requests, export_idle>>

\* Lines 320-321: a chunk shorter than BIRDNET_AUDIO_DURATION is passed over.
SkipChunk ==
    /\ ex_pc = "row"
    /\ ex_row <= Len(ex_rows)
    /\ ex_rows[ex_row].end - ex_rows[ex_row].begin < BIRDNET_AUDIO_DURATION
    /\ ex_row' = ex_row + 1
    /\ UNCHANGED <<export_args, ex_files, ex_segments, ex_seg, ex_rows, ex_noise,
                   ex_requests, ex_pc, export_idle>>

\* Lines 323-324.
EnterChunk ==
    /\ ex_pc = "row"
    /\ ex_row <= Len(ex_rows)
    /\ ex_rows[ex_row].end - ex_rows[ex_row].begin >= BIRDNET_AUDIO_DURATION
    /\ ex_noise' = TRUE
    /\ ex_pc' = "while"
    /\ UNCHANGED <<export_args, ex_files, ex_segments, ex_seg, ex_rows, ex_row,
                   ex_requests, export_idle>>

\* Line 325: seg and seg.tend < tend_f.
InChunk == ex_seg # None /\ tend(ex_seg) < ex_rows[ex_row].end

\* Lines 325-419: one turn of the while loop.  The break of line 417, taken with
\* seg = None, leaves the loop as its condition would.
ExportSegment ==
    /\ ex_pc = "while"
    /\ InChunk
    /\ LET done == ExportOne(ex_files, ex_row, ex_rows[ex_row].begin, ex_seg,
                             ex_overlap, ex_length_threshold)
       IN  /\ ex_requests' = ex_requests \o done.requests
           /\ ex_files' = done.files
    /\ ex_noise' = FALSE
    /\ ex_seg' = IF ex_segments = <<>> THEN None ELSE Head(ex_segments)
    /\ ex_segments' = IF ex_segments = <<>> THEN <<>> ELSE Tail(ex_segments)
    /\ UNCHANGED <<export_args, ex_rows, ex_row, ex_pc, export_idle>>

\* Lines 421-462: after the while loop, the chunk is exported as background if
\* the flag still stands; then the next row.
LeaveChunk ==
    /\ ex_pc = "while"
    /\ ~InChunk
    /\ LET done == ExportNoise(ex_files, ex_row, ex_rows[ex_row].begin,
                               ex_rows[ex_row].end)
       IN  /\ ex_requests' = IF ex_noise THEN ex_requests \o done.requests
                                           ELSE ex_requests
           /\ ex_files' = IF ex_noise THEN done.files ELSE ex_files
    /\ ex_row' = ex_row + 1
    /\ ex_pc' = "row"
    /\ UNCHANGED <<export_args, ex_segments, ex_seg, ex_rows, ex_noise, export_idle>>

\* The list of chunks is exhausted.
ExportDone ==
    /\ ex_pc = "row"
    /\ ex_row > Len(ex_rows)
    /\ ex_pc' = "done"
    /\ UNCHANGED <<export_args, ex_files, ex_segments, ex_seg, ex_rows, ex_row,
                   ex_noise, ex_requests, export_idle>>

NextExport ==
    \/ ExportStart
    \/ SkipChunk
    \/ EnterChunk
    \/ ExportSegment
    \/ LeaveChunk
    \/ ExportDone

SpecExport == InitExport /\ [][NextExport]_vars

(* ---------------------- TableParser.valid_format ----------------------- *)
\* A parser without header whose columns are tstart = FloatColumn(colindex=0),
\* tend = FloatColumn(colindex=1) and label = Column(colindex=2), with
\* segment_type = Segment.  A row is the list of its cells, which are strings.
MaxRows == 3

Numerals == {"1", "2"}
TimeCellStrings == Numerals \cup {"x", ""}

FloatColumn(colindex) == [colindex |-> colindex, reads |-> "float"]
Column(colindex) == [colindex |-> colindex, reads |-> "str"]
columns == <<FloatColumn(0), FloatColumn(1), Column(2)>>

\* What a call gives: a value, or the exception it raises.
Value(v) == [raised |-> "none", value |-> v]
Raise(exception) == [raised |-> exception, value |-> 0]

\* float(cell).
float(cell) ==
    CASE cell = "1" -> Value(1)
      [] cell = "2" -> Value(2)
      [] OTHER -> Raise("ValueError")

\* Column.read_func and FloatColumn.read_func.
read_func(col, cell) == IF col.reads = "float" THEN float(cell) ELSE Value(cell)

\* Column.get_val (lines 32-38); the cells of a row are numbered from 0.
get_val(col, row) ==
    IF Len(row) <= col.colindex
    THEN Raise("IndexError")
    ELSE read_func(col, row[col.colindex + 1])

\* The exceptions the clause `except ValueError or IndexError` catches: the
\* expression `ValueError or IndexError` is ValueError.
get_segment_catches == {"ValueError"}

\* TableParser.get_segment (lines 101-110): the columns are read in order, the
\* first exception ends the list; a caught one is raised again as ValueError.
get_segment(row, line_number) ==
    LET vals == [k \in 1..Len(columns) |-> get_val(columns[k], row)]
        failed == {k \in 1..Len(columns) : vals[k].raised # "none"}
        first == CHOOSE k \in failed : \A j \in failed : k <= j
    IN  IF failed = {}
        THEN Value(Segment(vals[1].value, vals[2].value, vals[3].value))
        ELSE IF vals[first].raised \in get_segment_catches
             THEN Raise("ValueError")
             ELSE Raise(vals[first].raised)

\* Line 136: the rows get_segments skips.
IsEmptyRow(row) == Len(row) = 0 \/ (Len(row) = 1 /\ row[1] = "")

\* The rows a table may hold, and the tables of at most MaxRows rows.
TableRows ==
    {<<>>} \cup {<<a>> : a \in TimeCellStrings}
           \cup {<<a, b>> : <<a, b>> \in TimeCellStrings \X TimeCellStrings}
           \cup {<<a, b, "A">> : <<a, b>> \in TimeCellStrings \X TimeCellStrings}

InitParser ==
    /\ NoValidate /\ NoCall /\ NoExport
    /\ tp_table \in UNION {[1..n -> TableRows] : n \in 0..MaxRows}
    /\ tp_i = 0
    /\ tp_pulled = <<>>
    /\ tp_outcome = "running"

parser_idle == <<validate_vars, call_vars, export_vars>>

\* Line 116: zip(range(2), ...) asks the generator for at most two segments.
Pulling == tp_outcome = "running" /\ Len(tp_pulled) < 2 /\ tp_i < Len(tp_table)

\* Lines 136-138: an empty row is skipped with a warning.
SkipEmptyRow ==
    /\ Pulling
    /\ IsEmptyRow(tp_table[tp_i + 1])
    /\ tp_i' = tp_i + 1
    /\ UNCHANGED <<tp_table, tp_pulled, tp_outcome, parser_idle>>

\* Line 139: the row gives a segment, which zip takes.
YieldSegment ==
    /\ Pulling
    /\ ~IsEmptyRow(tp_table[tp_i + 1])
    /\ LET got == get_segment(tp_table[tp_i + 1], tp_i + 1)
       IN  /\ got.raised = "none"
           /\ tp_pulled' = Append(tp_pulled, got.value)
    /\ tp_i' = tp_i + 1
    /\ UNCHANGED <<tp_table, tp_outcome, parser_idle>>

\* Lines 140-141 and 117-118: get_segment raised ValueError; get_segments raises
\* it again and valid_format returns False.
RowRaisesValueError ==
    /\ Pulling
    /\ ~IsEmptyRow(tp_table[tp_i + 1])
    /\ get_segment(tp_table[tp_i + 1], tp_i + 1).raised = "ValueError"
    /\ tp_i' = tp_i + 1
    /\ tp_outcome' = "False"
    /\ UNCHANGED <<tp_table, tp_pulled, parser_idle>>

\* Any other exception of get_segment passes both `except ValueError` clauses and
\* leaves valid_format.
RowRaisesOther ==
    /\ Pulling
    /\ ~IsEmptyRow(tp_table[tp_i + 1])
    /\ get_segment(tp_table[tp_i + 1], tp_i + 1).raised \notin {"none", "ValueError"}
    /\ tp_i' = tp_i + 1
    /\ tp_outcome' = get_segment(tp_table[tp_i + 1], tp_i + 1).raised
    /\ UNCHANGED <<tp_table, tp_pulled, parser_idle>>

\* Line 119: zip is exhausted, by range(2) or by the end of the table.
ReturnTrue ==
    /\ tp_outcome = "running"
    /\ Len(tp_pulled) = 2 \/ tp_i = Len(tp_table)
    /\ tp_outcome' = "True"
    /\ UNCHANGED <<tp_table, tp_i, tp_pulled, parser_idle>>

NextParser ==
    \/ SkipEmptyRow
    \/ YieldSegment
    \/ RowRaisesValueError
    \/ RowRaisesOther
    \/ ReturnTrue

SpecParser == InitParser /\ [][NextParser]_vars

(* ===================================================================== *)
(* Properties.  What a claim expects is written from the inputs alone     *)
(* (half-open intervals over unit time cells), not with the operators the *)
(* model of the code uses.                                                *)
(* ===================================================================== *)
Cells == DOMAIN conf_time_matrix
CellOf(label_truth, label_prediction) == <<index[label_truth], index[label_prediction]>>
TimeAt(label_truth, label_prediction) == conf_time_matrix[CellOf(label_truth, label_prediction)]
CountAt(label_truth, label_prediction) == conf_count_matrix[CellOf(label_truth, label_prediction)]
TimeAdded(c) == conf_time_matrix'[c] - conf_time_matrix[c]
CountAdded(c) == conf_count_matrix'[c] - conf_count_matrix[c]

\* The unit cells [t, t+1) of a half-open interval.
TimeCells(a) == {t \in a.begin..(a.end - 1) : TRUE}
Intersect(a, b) == TimeCells(a) \cap TimeCells(b) # {}
OverlapLength(a, b) == Cardinality(TimeCells(a) \cap TimeCells(b))
CoveredLength(a, S) == Cardinality({t \in TimeCells(a) : \E s \in S : t \in TimeCells(s)})

\* The distinct non-background intervals of a list.
NonBackground(segments) == {s \in Range(segments) : s.label # NOISE_LABEL}

RECURSIVE SumOf(_, _)
SumOf(f, S) ==
    IF S = {} THEN 0
    ELSE LET x == CHOOSE y \in S : TRUE IN f[x] + SumOf(f, S \ {x})

\* Total duration and number of the entries of a list that carry label l.
RECURSIVE DurationOf(_, _)
DurationOf(segments, l) ==
    IF segments = <<>> THEN 0
    ELSE (IF Head(segments).label = l THEN Head(segments).end - Head(segments).begin
          ELSE 0) + DurationOf(Tail(segments), l)

NumberOf(segments, l) == Cardinality({i \in 1..Len(segments) : segments[i].label = l})

BothSides(r) == r \in DOMAIN ground_truth /\ r \in DOMAIN to_validate

\* The validated (resp. ground-truth) intervals of the current recording that
\* intersect a given interval.
ValidatedOver(g) == {v \in NonBackground(to_validate[rel_path]) : Intersect(g, v)}
GroundTruthOver(v) == {g \in NonBackground(ground_truth[rel_path]) : Intersect(g, v)}

\* No list of the ground truth names the same interval twice.
NoDuplicateGroundTruth ==
    \A r \in DOMAIN ground_truth :
        \A i, j \in 1..Len(ground_truth[r]) :
            ground_truth[r][i] = ground_truth[r][j] => i = j

RowSum(m, l) == SumOf([c \in Cells |-> IF c[1] = index[l] THEN m[c] ELSE 0], Cells)

\* C1: partition of ground-truth time. When validate() has returned and every
\* recording is on both sides (no interval of the ground truth listed twice), the
\* row of each non-background label in the time matrix sums to the total duration
\* of the ground-truth intervals with that label.
PartitionOfGroundTruthTime ==
    (/\ pc = "done"
     /\ DOMAIN ground_truth = DOMAIN to_validate
     /\ NoDuplicateGroundTruth)
    => \A l \in Range(labels) \ {NOISE_LABEL} :
          RowSum(conf_time_matrix, l) =
              SumOf([r \in DOMAIN ground_truth |-> DurationOf(ground_truth[r], l)],
                    DOMAIN ground_truth)

\* A run of validate() that visits the recordings in the given order and every
\* tree in sorted order: st is the pair of matrices, what seg_gt is bound to, and
\* whether the run has raised.
RECURSIVE RunGtPass(_, _, _)
RunGtPass(st, order, tree_tv) ==
    IF order = <<>> THEN st
    ELSE RunGtPass([st EXCEPT !.M = GtIteration(st.M, Head(order), tree_tv),
                              !.cur_gt = Head(order)],
                   Tail(order), tree_tv)

RECURSIVE RunTvPass(_, _, _)
RunTvPass(st, order, tree_gt) ==
    IF order = <<>> \/ st.raised THEN st
    ELSE IF TvRaises(Head(order), tree_gt, st.cur_gt)
         THEN [st EXCEPT !.raised = TRUE]
         ELSE RunTvPass([st EXCEPT !.M = TvIteration(st.M, Head(order), tree_gt, st.cur_gt)],
                        Tail(order), tree_gt)

RunRecording(st, r) ==
    IF r \notin DOMAIN ground_truth
    THEN [st EXCEPT !.M = OnlyToValidate(st.M, to_validate[r])]
    ELSE IF r \notin DOMAIN to_validate
    THEN [st EXCEPT !.M = OnlyGroundTruth(st.M, ground_truth[r])]
    ELSE LET mn == MinTstart(ground_truth[r])
             mx == MaxTend(ground_truth[r])
             gt == interval_tree(ground_truth[r], late_start, early_stop, mn, mx)
             tv == interval_tree(to_validate[r], late_start, early_stop, mn, mx)
         IN  RunTvPass(RunGtPass(st, SortedIntervals(gt), tv), SortedIntervals(tv), gt)

RECURSIVE RunAll(_, _)
RunAll(st, order) ==
    IF order = <<>> \/ st.raised THEN st
    ELSE RunAll(RunRecording(st, Head(order)), Tail(order))

RECURSIVE SortedPaths(_)
SortedPaths(S) ==
    IF S = {} THEN <<>>
    ELSE LET m == CHOOSE x \in S : \A y \in S : RelPathRank(x) <= RelPathRank(y)
         IN  <<m>> \o SortedPaths(S \ {m})

SortedRun ==
    RunAll([M |-> [time |-> Zeros(Len(labels)), count |-> Zeros(Len(labels))],
            cur_gt |-> Unbound, raised |-> FALSE],
           SortedPaths(all_rel_paths))

\* C2: order-independence of accumulation. Whatever order the loop of line 264
\* visits the recordings in, validate() ends as the run that visits them in sorted
\* order does: with the same two matrices, or raising if that run raises. (Stated
\* for inputs with at most one ground-truth interval per recording, where the
\* order inside a recording cannot matter.)
OrderIndependence ==
    (\A r \in DOMAIN ground_truth : Len(ground_truth[r]) <= 1)
    => /\ pc = "done" => (~SortedRun.raised /\ SortedRun.M = Matrices)
       /\ pc = "raised" => SortedRun.raised

\* C3: validated-driven pass, unmatched case. An iteration of the loop of line 323
\* over a segment v that intersects no ground-truth interval adds v's own duration
\* to time[background, v.label] and 1 to count[background, v.label].
UnmatchedValidatedStep ==
    [][(pc = "tv_pass" /\ pc' # "raised" /\ GroundTruthOver(seg_tv') = {})
        => /\ TimeAdded(CellOf(NOISE_LABEL, seg_tv'.label))
                 = seg_tv'.end - seg_tv'.begin
           /\ CountAdded(CellOf(NOISE_LABEL, seg_tv'.label)) = 1]_vars

\* C4: validated-driven pass, matched case. An iteration of the loop of line 323
\* over a segment v that intersects some ground-truth interval adds to
\* time[background, v.label] the length of v that no ground-truth interval covers,
\* and leaves the count matrix alone.
MatchedValidatedStep ==
    [][(pc = "tv_pass" /\ pc' # "raised" /\ GroundTruthOver(seg_tv') # {})
        => /\ TimeAdded(CellOf(NOISE_LABEL, seg_tv'.label))
                 = (seg_tv'.end - seg_tv'.begin)
                     - CoveredLength(seg_tv', GroundTruthOver(seg_tv'))
           /\ conf_count_matrix' = conf_count_matrix]_vars

\* C5: ground-truth-driven pass, unmatched case. An iteration of the loop of line
\* 302 over a segment g that no validated interval of the recording intersects adds
\* g's duration to time[g.label, background], 1 to count[g.label, background], and
\* nothing to any other cell.
UnmatchedGroundTruthStep ==
    [][(pc = "gt_pass" /\ ValidatedOver(seg_gt') = {})
        => \A c \in Cells :
              /\ TimeAdded(c) = IF c = CellOf(seg_gt'.label, NOISE_LABEL)
                                  THEN seg_gt'.end - seg_gt'.begin ELSE 0
              /\ CountAdded(c) = IF c = CellOf(seg_gt'.label, NOISE_LABEL)
                                   THEN 1 ELSE 0]_vars

\* Reached: the run is over, a ground-truth interval of a recording of both sides
\* met no validated interval and its miss is in both matrices.
UnmatchedGroundTruthSeen ==
    /\ pc = "done"
    /\ BothSides(rel_path)
    /\ NonBackground(to_validate[rel_path]) # {}
    /\ \E g \in segs_gt :
          /\ ValidatedOver(g) = {}
          /\ TimeAt(g.label, NOISE_LABEL) = g.end - g.begin
          /\ CountAt(g.label, NOISE_LABEL) = 1

\* C6: ground-truth-driven pass, matched case. An iteration of the loop of line 302
\* over a segment g adds, for every validated interval v that intersects g, the
\* length of the intersection to time[g.label, v.label] and 1 to
\* count[g.label, v.label]: the count matrix grows by the number of such v.
MatchedGroundTruthStep ==
    [][(pc = "gt_pass" /\ ValidatedOver(seg_gt') # {})
        => LET g == seg_gt'
               over == ValidatedOver(g)
           IN  /\ \A c \in Cells :
                     c[2] # index[NOISE_LABEL] =>
                        LET into == {v \in over : CellOf(g.label, v.label) = c}
                        IN  /\ TimeAdded(c)
                                 = SumOf([v \in into |-> OverlapLength(g, v)], into)
                            /\ CountAdded(c) = Cardinality(into)
               /\ SumOf([c \in Cells |-> CountAdded(c)], Cells) = Cardinality(over)]_vars

\* Reached: a ground-truth interval met two validated intervals with different
\* labels, and each of the two cells holds its share.
MatchedGroundTruthSeen ==
    /\ pc = "done"
    /\ BothSides(rel_path)
    /\ \E g \in segs_gt : \E v, w \in ValidatedOver(g) :
          /\ v.label # w.label
          /\ v.label # g.label
          /\ OverlapLength(g, v) # OverlapLength(g, w)
          /\ TimeAt(g.label, v.label) = OverlapLength(g, v)
          /\ TimeAt(g.label, w.label) = OverlapLength(g, w)
          /\ CountAt(g.label, v.label) = 1
          /\ CountAt(g.label, w.label) = 1

\* C7: uncovered ground-truth time. An iteration of the loop of line 302 over a
\* segment g that some validated interval intersects adds to
\* time[g.label, background] the length of g that no validated interval covers:
\* time covered by several predictions is subtracted once, and the amount is never
\* negative.
UncoveredGroundTruthStep ==
    [][(pc = "gt_pass" /\ ValidatedOver(seg_gt') # {})
        => LET g == seg_gt'
               added == TimeAdded(CellOf(g.label, NOISE_LABEL))
           IN  /\ added = (g.end - g.begin) - CoveredLength(g, ValidatedOver(g))
               /\ added >= 0]_vars

\* Reached: two validated intervals that overlap each other cover a part of a
\* ground-truth interval, and the rest of it is charged to the background.
UncoveredGroundTruthSeen ==
    /\ pc = "done"
    /\ BothSides(rel_path)
    /\ segs_gt # {}
    /\ \A g \in segs_gt :
          /\ \E v, w \in ValidatedOver(g) : v # w /\ Intersect(v, w)
          /\ CoveredLength(g, ValidatedOver(g)) < g.end - g.begin
          /\ TimeAt(g.label, NOISE_LABEL)
                = (g.end - g.begin) - CoveredLength(g, ValidatedOver(g))

\* What a recording that only one side knows is expected to add to cell c.
MissCells(segments, truth_side) ==
    [c \in Cells |->
        LET ls == {l \in Range(labels) \ {NOISE_LABEL} :
                      c = IF truth_side THEN CellOf(l, NOISE_LABEL)
                          ELSE CellOf(NOISE_LABEL, l)}
        IN  [time |-> SumOf([l \in ls |-> DurationOf(segments, l)], ls),
             count |-> SumOf([l \in ls |-> NumberOf(segments, l)], ls)]]

\* C8: missing recording. Visiting a recording that only the ground truth knows
\* adds, for each of its non-background intervals, its duration to
\* time[label, background] and 1 to count[label, background]; one that only the
\* validated set knows adds them to [background, label]; no other cell changes.
MissingRecordingStep ==
    [][(pc = "loop" /\ pc' = "loop" /\ ~BothSides(rel_path'))
        => LET expected ==
                  IF rel_path' \in DOMAIN ground_truth
                  THEN MissCells(ground_truth[rel_path'], TRUE)
                  ELSE MissCells(to_validate[rel_path'], FALSE)
           IN  \A c \in Cells :
                  /\ TimeAdded(c) = expected[c].time
                  /\ CountAdded(c) = expected[c].count]_vars

\* Reached: the only recording is missing from the ground truth, holds a
\* background and a non-background interval, and the latter alone is in the
\* matrices, as a false alarm.
MissingRecordingSeen ==
    /\ pc = "done"
    /\ rel_path \in DOMAIN to_validate
    /\ rel_path \notin DOMAIN ground_truth
    /\ \E i, j \in 1..Len(to_validate[rel_path]) :
          /\ to_validate[rel_path][i].label = NOISE_LABEL
          /\ to_validate[rel_path][j].label # NOISE_LABEL
    /\ \E l \in Range(labels) \ {NOISE_LABEL} :
          /\ TimeAt(NOISE_LABEL, l) = DurationOf(to_validate[rel_path], l)
          /\ TimeAt(NOISE_LABEL, l) > 0
          /\ CountAt(NOISE_LABEL, l) = NumberOf(to_validate[rel_path], l)
          /\ TimeAt(l, NOISE_LABEL) = 0

\* C9: true negatives are never scored. Once the matrices exist, the cell
\* [background, background] of the time matrix and of the count matrix is 0.
NoTrueNegatives ==
    labels # <<>> => (TimeAt(NOISE_LABEL, NOISE_LABEL) = 0
                      /\ CountAt(NOISE_LABEL, NOISE_LABEL) = 0)

\* Reached: a run in binary mode is over in which the collapse turned intersecting
\* intervals of both sides into background.
NoTrueNegativesSeen ==
    /\ pc = "done"
    /\ binary
    /\ labels = BinaryLabels
    /\ BothSides(rel_path)
    /\ \E g \in Range(ground_truth[rel_path]), v \in Range(to_validate[rel_path]) :
          g.label = NOISE_LABEL /\ v.label = NOISE_LABEL /\ Intersect(g, v)

\* C10: binary mode vocabulary. When validate() was called with binary=True on
\* inputs that hold a non-background interval and has returned, the axes of the
\* matrices are exactly Positive and the background label.
BinaryVocabulary ==
    (/\ binary
     /\ pc = "done"
     /\ (LabelsOf(ground_truth) \cup LabelsOf(to_validate)) \ {NOISE_LABEL} # {})
    => (Len(labels) = 2 /\ Range(labels) = {POSITIVE, NOISE_LABEL})

\* The inputs as the caller passed them hold an interval that is not background.
SomeNonBackground ==
    (LabelsOf(caller_ground_truth) \cup LabelsOf(caller_to_validate)) \ {NOISE_LABEL} # {}

\* C11: binary mode without positive labels is an error. Whenever validate() is
\* called with binary=True and no positive labels (on inputs that hold a
\* non-background interval), it raises before any relabelling and before any matrix
\* exists: it never goes on to the loop over the recordings nor returns.
BinaryWithoutPositiveRaises ==
    (binary /\ positive_labels.is_none /\ SomeNonBackground /\ pc # "start")
    => /\ pc = "raised"
       /\ raised # "none"
       /\ conf_time_matrix = <<>> /\ conf_count_matrix = <<>>
       /\ ground_truth = caller_ground_truth /\ to_validate = caller_to_validate

\* What the binary collapse with positive set P is expected to make of a list.
Relabelled(audio_files, P) ==
    [r \in DOMAIN audio_files |->
        [i \in 1..Len(audio_files[r]) |->
            Segment(audio_files[r][i].begin, audio_files[r][i].end,
                    IF audio_files[r][i].label \in P THEN POSITIVE ELSE NOISE_LABEL)]]

\* C12: binary collapse relabelling. In binary mode with positive label set P, what
\* the loop over the recordings reconciles is the caller's data with every interval
\* whose label is in P relabelled Positive and every other interval relabelled
\* background.
BinaryRelabelling ==
    (binary /\ ~positive_labels.is_none /\ pc \notin {"start", "raised"})
    => /\ ground_truth = Relabelled(caller_ground_truth, positive_labels.items)
       /\ to_validate = Relabelled(caller_to_validate, positive_labels.items)

ReturnedLabels ==
    CHOOSE lbls \in {returned[1].df_matrix.index} :
        \A k \in 1..2 : /\ returned[k].df_matrix.index = lbls
                         /\ returned[k].df_matrix.columns = lbls
                         /\ returned[k].df_metrics.index = lbls

IsSorted(lbls) == \A i, j \in 1..Len(lbls) : i < j => LabelRank(lbls[i]) < LabelRank(lbls[j])

\* The mapping used for accumulation is the order of the list.
IndexIsOrderOf(lbls) ==
    /\ DOMAIN index = Range(lbls)
    /\ \A i \in 1..Len(lbls) : index[lbls[i]] = i - 1

MoreThanTwoLabels ==
    Cardinality(LabelsOf(caller_ground_truth) \cup LabelsOf(caller_to_validate)
                    \cup {NOISE_LABEL}) > 2

FirstGroundTruthStart ==
    LET G == NonBackground(ground_truth[rel_path])
    IN  CHOOSE t \in {g.begin : g \in G} : \A g \in G : t <= g.begin

LastGroundTruthEnd ==
    LET G == NonBackground(ground_truth[rel_path])
    IN  CHOOSE t \in {g.end : g \in G} : \A g \in G : t >= g.end

\* The ground truth of the current recording holds intervals, none of them background.
OnlyNonBackgroundGroundTruth ==
    /\ BothSides(rel_path)
    /\ NonBackground(ground_truth[rel_path]) = Range(ground_truth[rel_path])

MatricesUnchanged ==
    conf_time_matrix' = conf_time_matrix /\ conf_count_matrix' = conf_count_matrix

\* C15: late-start trimming. With late_start=True, in a recording of both sides
\* (whose ground truth holds no background interval), a validated interval that
\* ends at or before the start of the first ground-truth interval adds nothing to
\* either matrix: no iteration of the loop of line 323 over it changes a cell.
LateStartTrimming ==
    [][(/\ pc = "tv_pass"
        /\ late_start
        /\ OnlyNonBackgroundGroundTruth
        /\ seg_tv'.end <= FirstGroundTruthStart)
        => MatricesUnchanged]_vars

\* C16: early-stop trimming. With early_stop=True, in a recording of both sides
\* (whose ground truth holds no background interval), a validated interval that
\* starts at or after the end of the last ground-truth interval adds nothing to
\* either matrix: no iteration of the loop of line 323 over it changes a cell.
EarlyStopTrimming ==
    [][(/\ pc = "tv_pass"
        /\ early_stop
        /\ OnlyNonBackgroundGroundTruth
        /\ seg_tv'.begin >= LastGroundTruthEnd)
        => MatricesUnchanged]_vars

\* C17: the trimming window comes from the non-background ground truth only. When
\* the trees of a recording of both sides are built, the validated intervals that
\* end before the first non-background ground-truth start (late_start) or start
\* after the last non-background ground-truth end (early_stop) are dropped,
\* wherever the background intervals of the ground truth lie; and if the ground
\* truth holds no non-background interval, nothing is dropped.
WindowFromNonBackground ==
    [][(pc = "loop" /\ pc' \in {"gt_pass", "tv_pass", "loop"} /\ BothSides(rel_path')
            /\ todo_paths' # todo_paths)
        => LET r == rel_path'
               V == NonBackground(to_validate[r])
               G == NonBackground(ground_truth[r])
           IN  IF G = {}
               THEN segs_tv' = V
               ELSE \A v \in V :
                       /\ (late_start /\ \A g \in G : v.end < g.begin) => v \notin segs_tv'
                       /\ (early_stop /\ \A g \in G : v.begin > g.end) => v \notin segs_tv']_vars

\* The non-background intervals with end <= start a list holds.
Malformed(segments) == {m \in NonBackground(segments) : m.end <= m.begin}

MalformedIn(r) ==
    (IF r \in DOMAIN caller_ground_truth THEN Malformed(caller_ground_truth[r]) ELSE {})
        \cup (IF r \in DOMAIN caller_to_validate THEN Malformed(caller_to_validate[r])
              ELSE {})

\* C18: a malformed interval fails fast. If a non-background interval with
\* end <= start is in a recording (of both sides or of one side only), validate()
\* does not return matrices, and no step adds a contribution of that recording to
\* either matrix.
MalformedFailsFast ==
    [][/\ pc' = "done" => \A r \in all_rel_paths : MalformedIn(r) = {}
       /\ ~MatricesUnchanged /\ pc # "start" => MalformedIn(rel_path') = {}]_vars

\* The stored intervals x with x.start < e and s < x.end.
ExactlyOverlapping(tree, s, e) == {x \in tree : x.begin < e /\ s < x.end}

\* C19: the overlap query is exact and half-open. In every iteration of the two
\* loops, the set the reconciler treats as overlapping the interval [s, e) at hand
\* is exactly the intervals x of the other tree with x.start < e and s < x.end; an
\* interval that only touches it (x.end = s or x.start = e) is never in the set.
ExactOverlapQuery ==
    [][/\ pc = "gt_pass" =>
            /\ overlapping' = ExactlyOverlapping(segs_tv, seg_gt'.begin, seg_gt'.end)
            /\ \A x \in overlapping' : x.end # seg_gt'.begin /\ x.begin # seg_gt'.end
       /\ pc = "tv_pass" =>
            /\ overlapping' = ExactlyOverlapping(segs_gt, seg_tv'.begin, seg_tv'.end)
            /\ \A x \in overlapping' : x.end # seg_tv'.begin /\ x.begin # seg_tv'.end]_vars

\* Reached: the loop over the ground truth has just queried the tree of the set to
\* validate, which holds an interval that ends where the ground-truth interval
\* starts and was left out, and one that starts before it, has no boundary inside
\* it and was found.
ExactOverlapQuerySeen ==
    /\ pc = "tv_pass"
    /\ todo_tv = segs_tv
    /\ seg_gt \in segs_gt
    /\ \E x \in segs_tv \ overlapping : x.end = seg_gt.begin
    /\ \E x \in overlapping :
          /\ x.begin < seg_gt.begin
          /\ x.end >= seg_gt.end
          /\ x.label # seg_gt.label
          /\ TimeAt(seg_gt.label, x.label) = seg_gt.end - seg_gt.begin

\* The sum of column i (resp. row i) of a matrix without the diagonal.
ColumnWithoutDiagonal(M, i) ==
    SumOf([c \in DOMAIN M |-> IF c[2] = i /\ c[1] # i THEN M[c] ELSE 0], DOMAIN M)

RowWithoutDiagonal(M, i) ==
    SumOf([c \in DOMAIN M |-> IF c[1] = i /\ c[2] # i THEN M[c] ELSE 0], DOMAIN M)

\* n/d if d > 0 else 0, as a pair <<numerator, denominator>>.
RatioOrZero(n, d) == IF d > 0 THEN <<n, d>> ELSE <<0, 1>>

\* The value x of the metrics is the finite number q[1]/q[2] (q[2] > 0).
IsRatio(x, q) == x.den > 0 /\ x.num * q[2] = q[1] * x.den

\* C20: metrics derivation. For each of the two returned matrices M and every label
\* at index i, with TP = M[i,i]: FP is the sum of column i without the diagonal, FN
\* the sum of row i without the diagonal, precision = TP/(TP+FP) if TP+FP > 0 else
\* 0, recall = TP/(TP+FN) if TP+FN > 0 else 0, f1 = 2pr/(p+r) if p+r > 0 else 0.
MetricsDerivation ==
    pc = "done" =>
        \A k \in 1..2 : \A i \in 0..(Len(returned[k].df_matrix.index) - 1) :
            LET M == returned[k].df_matrix.data
                got == returned[k].df_metrics.data[i]
                TP == M[<<i, i>>]
                FP == ColumnWithoutDiagonal(M, i)
                FN == RowWithoutDiagonal(M, i)
                p == RatioOrZero(TP, TP + FP)
                r == RatioOrZero(TP, TP + FN)
                \* p + r and 2pr/(p+r) over the common denominator p[2] * r[2]
                sum == p[1] * r[2] + r[1] * p[2]
            IN  /\ got.false_positive = FP
                /\ got.false_negative = FN
                /\ IsRatio(got.precision, p)
                /\ IsRatio(got.recall, r)
                /\ IsRatio(got.f1score, RatioOrZero(2 * p[1] * r[1], sum))

\* Both sides hold, for every recording, the same non-background intervals, no two
\* of which intersect.
SameDisjointIntervals ==
    /\ caller_ground_truth = caller_to_validate
    /\ DOMAIN caller_ground_truth # {}
    /\ \A r \in DOMAIN caller_ground_truth :
          LET segments == caller_ground_truth[r]
          IN  /\ \A i \in 1..Len(segments) : segments[i].label # NOISE_LABEL
              /\ \A i, j \in 1..Len(segments) :
                    i # j => ~Intersect(segments[i], segments[j])

IsOne(x) == x.den > 0 /\ x.num = x.den

\* C21: exact agreement. When both sides hold the same pairwise non-overlapping
\* non-background intervals for every recording, validate() returns; every
\* off-diagonal cell of both matrices is 0; time[L,L] is the total duration and
\* count[L,L] the number of the intervals labelled L; and precision, recall and f1
\* of every such label are 1 in both metrics tables.
ExactAgreement ==
    SameDisjointIntervals =>
        /\ pc # "raised"
        /\ pc = "done" =>
              /\ \A c \in Cells :
                    c[1] # c[2] => conf_time_matrix[c] = 0 /\ conf_count_matrix[c] = 0
              /\ \A l \in Range(labels) \ {NOISE_LABEL} :
                    /\ TimeAt(l, l) =
                          SumOf([r \in DOMAIN caller_ground_truth |->
                                    DurationOf(caller_ground_truth[r], l)],
                                DOMAIN caller_ground_truth)
                    /\ CountAt(l, l) =
                          SumOf([r \in DOMAIN caller_ground_truth |->
                                    NumberOf(caller_ground_truth[r], l)],
                                DOMAIN caller_ground_truth)
                    /\ \A k \in 1..2 :
                          LET got == returned[k].df_metrics.data[index[l]]
                          IN  IsOne(got.precision) /\ IsOne(got.recall)
                                  /\ IsOne(got.f1score)

\* Binary mode with a positive set that no interval of either set carries, although
\* some interval carries a non-background label.
NoPositiveMatch ==
    /\ binary
    /\ SomeNonBackground
    /\ ~positive_labels.is_none
    /\ ~Found(caller_ground_truth, caller_to_validate, positive_labels.items)

\* C22: zero positive matches is non-fatal. In binary mode, when no interval of
\* either set carries a label of the positive set, validate() warns, does not
\* raise, and returns both (matrix, metrics) pairs.
ZeroPositiveMatchesWarns ==
    (NoPositiveMatch /\ pc # "start")
    => /\ warned
       /\ pc # "raised"
       /\ pc = "done" => Len(returned) = 2

ReturnsCountThenTime ==
    pc = "done" =>
        /\ returned[1] = stats(conf_count_matrix, labels)
        /\ returned[2] = stats(conf_time_matrix, labels)

\* The requests for clips of a label other than the background.
Labelled == {i \in 1..Len(ex_requests) : ex_requests[i].seg.label # NOISE_LABEL}

\* C25: exported clip length. Every labelled clip export_all_birdnet asks the
\* transcoder to write spans exactly BIRDNET_AUDIO_DURATION: a clip asked for by
\* its start and end has end - start = 3 s, and a segment handed to the segment
\* muxer is cut into pieces of 3 s; in the short branch, the split without overlap
\* and the split with overlap alike.
ExportedClipLength ==
    \A i \in Labelled :
        LET request == ex_requests[i]
        IN  /\ request.kind = "clip" => request.to - request.ss = BIRDNET_AUDIO_DURATION
            /\ request.kind = "split" => request.times = BIRDNET_AUDIO_DURATION

\* The segment lies inside the chunk, ends included.
Inside(seg, chunk) == chunk.begin <= tstart(seg) /\ tend(seg) <= chunk.end

\* C26: noise export only for segment-free chunks. A chunk is exported as Noise
\* only if no padded non-background segment lies inside it, and every segment is
\* exported from the chunk that contains it, with a start offset >= 0 relative
\* to that chunk, also when its padded end is the chunk's end.
NoiseOnlyWithoutSegments ==
    \A i \in 1..Len(ex_requests) :
        LET request == ex_requests[i]
            chunk == ex_rows[request.row]
            segments == Padded(ex_given)
        IN  /\ request.kind = "noise" =>
                  \A j \in 1..Len(segments) : ~Inside(segments[j], chunk)
            /\ i \in Labelled => request.ss >= 0 /\ Inside(request.seg, chunk)

\* C27: non-negative matrices. After validate() on well-formed input every cell
\* of the time matrix and of the count matrix is >= 0, the background row
\* included when a validated interval is shorter than, or lies inside, a
\* ground-truth interval.
NonNegativeMatrices ==
    pc = "done" =>
        \A c \in Cells : conf_time_matrix[c] >= 0 /\ conf_count_matrix[c] >= 0

\* C28: validate() never raises on well-formed input under a valid
\* configuration, also when a recording on both sides has background ground
\* truth only and non-background validated intervals, and is the first one.
NeverRaisesOnWellFormed == pc # "raised" /\ raised = "none"

\* The ground truth of a recording is one non-background interval, k >= 2 times,
\* which no validated interval of the recording intersects.
UnmatchedDuplicates(r) ==
    /\ r \in DOMAIN caller_ground_truth
    /\ LET segments == caller_ground_truth[r]
       IN  /\ Len(segments) >= 2
           /\ \A i \in 1..Len(segments) : segments[i] = segments[1]
           /\ segments[1].label # NOISE_LABEL
           /\ r \in DOMAIN caller_to_validate =>
                 \A j \in 1..Len(caller_to_validate[r]) :
                     ~Intersect(segments[1], caller_to_validate[r][j])
    /\ DOMAIN caller_ground_truth \cup DOMAIN caller_to_validate = {r}

\* C29: duplicate intervals are counted consistently. k identical unmatched
\* ground-truth intervals of a recording add k to count[label, background] and k
\* times their duration to time[label, background], whether the recording is
\* missing from the validated set or present there.
DuplicatesCounted ==
    \A r \in DOMAIN caller_ground_truth :
        (pc = "done" /\ UnmatchedDuplicates(r)) =>
            LET segments == caller_ground_truth[r]
            IN  /\ CountAt(segments[1].label, NOISE_LABEL) = Len(segments)
                /\ TimeAt(segments[1].label, NOISE_LABEL)
                       = Len(segments) * dur(segments[1])

\* A row that is not skipped and does not give a segment: too short, or with a
\* start or end that is not a number.
Unreadable(row) ==
    /\ ~IsEmptyRow(row)
    /\ Len(row) < 3 \/ row[1] \notin Numerals \/ row[2] \notin Numerals

\* C30: unreadable rows are reported uniformly. Every failure to read a row, a
\* cell that cannot be converted as well as a row that is too short, reaches
\* valid_format as a ValueError, so valid_format does not raise and returns
\* False exactly when a row it read is unreadable.
UnreadableRowsReportedUniformly ==
    /\ tp_outcome \in {"idle", "running", "True", "False"}
    /\ tp_outcome \in {"True", "False"} =>
          (tp_outcome = "False" <=> \E k \in 1..tp_i : Unreadable(tp_table[k]))

====
